---- MODULE Spec2Model ----
(***************************************************************************)
(* Capital-Budgeting-Calculator: the metrics engine                        *)
(* (src/capital_budgeting_logic.py) as a state machine.  Each engine       *)
(* function is one action.  The caller holds one cash-flow list, a mutable *)
(* Python list passed by reference; Call passes it with the scalar         *)
(* arguments ("idle" to "called"), the function's action runs the body on  *)
(* the list as it then is ("called" to "done", the outcome in ret), and    *)
(* Return hands the outcome to the caller.  While a call is in progress    *)
(* other engine calls may run on the same list (ConcurrentCall).           *)
(*                                                                         *)
(* The dashboard (src/streamlit_app.py) is a second state machine,         *)
(* DashboardSpec: one action is one run of the script from top to bottom,  *)
(* with or without a click on Calculate, on the session_state that         *)
(* Streamlit keeps between runs.                                           *)
(*                                                                         *)
(* Numbers.  Python floats are modelled as exact rationals <<n, d>>,       *)
(* d > 0, in lowest terms.  One float rounding is kept: 1 + x is 1 for an  *)
(* x too small to show in 53 bits (OnePlus).  Otherwise the model says     *)
(* nothing about rounding error, overflow or underflow.  Two results are   *)
(* irrational in general (the IRR root and the MIRR n-th root): they are   *)
(* modelled truncated to the grid of 1/RootScale.  round(x, 2) rounds to   *)
(* the nearest hundredth; on an exact tie the float's binary               *)
(* representation decides in Python (round(0.995, 2) = 0.99 but            *)
(* round(2.995, 2) = 3.0), so the model allows both neighbours.            *)
(*                                                                         *)
(* Library.  numpy_financial (npf) and numpy (np) are not part of the      *)
(* repository; npf.npv, npf.irr, npf.mirr and np.linspace are modelled     *)
(* from the library's documented definitions at the call sites.            *)
(***************************************************************************)
EXTENDS Integers, Sequences, FiniteSets, TLC

VARIABLES pc, op, args, ret, cash_flow_list, overlapped,
          session_state, display, last_run

\* the engine and its caller; the dashboard's session
engine == <<pc, op, args, ret, cash_flow_list, overlapped>>

dashboard == <<session_state, display, last_run>>

vars == <<pc, op, args, ret, cash_flow_list, overlapped,
          session_state, display, last_run>>

(***************************************************************************)
(* Bounds of the model                                                     *)
(***************************************************************************)
MaxLen == 3        \* longest enumerated cash-flow list
MaxCF == 2         \* largest enumerated cash flow (smallest is -1)
MaxInv == 2        \* largest enumerated initial investment (smallest is -1)
RootScale == 1000  \* IRR / MIRR are truncated to multiples of 1/RootScale
MaxPoints == 3     \* largest enumerated num_points of the NPV profile
MaxOverlap == 1    \* most engine calls overlapping one call in progress

(***************************************************************************)
(* Integer helpers                                                         *)
(***************************************************************************)
Abs(x) == IF x < 0 THEN -x ELSE x

Sgn(x) == IF x < 0 THEN -1 ELSE IF x > 0 THEN 1 ELSE 0

Max2(a, b) == IF a >= b THEN a ELSE b

RECURSIVE Gcd(_, _)
Gcd(a, b) == IF b = 0 THEN a ELSE Gcd(b, a % b)

Lcm(a, b) == (a \div Gcd(a, b)) * b

\* floor and ceiling of n / d for d > 0 (TLA+ \div already rounds down)
FloorDiv(n, d) == n \div d

CeilDiv(n, d) == -((-n) \div d)

(***************************************************************************)
(* Exact rationals <<n, d>>, d > 0, lowest terms: the model of a float     *)
(***************************************************************************)
QNorm(n, d) ==
  LET s == IF d < 0 THEN -1 ELSE 1
      g == Gcd(Abs(n), Abs(d))
  IN  <<(s * n) \div g, (s * d) \div g>>

Q(k) == <<k, 1>>

QNeg(a) == <<-a[1], a[2]>>

QAdd(a, b) ==
  LET l == Lcm(a[2], b[2])
  IN  QNorm(a[1] * (l \div a[2]) + b[1] * (l \div b[2]), l)

QSub(a, b) == QAdd(a, QNeg(b))

\* cross-reduce first so that intermediate products stay small
QMul(a, b) ==
  LET g1 == Gcd(Abs(a[1]), b[2])
      g2 == Gcd(Abs(b[1]), a[2])
  IN  QNorm((a[1] \div g1) * (b[1] \div g2), (a[2] \div g2) * (b[2] \div g1))

QInv(a) == QNorm(a[2], a[1])

QDiv(a, b) == QMul(a, QInv(b))

QLt(a, b) == a[1] * b[2] < b[1] * a[2]

QLe(a, b) == a[1] * b[2] <= b[1] * a[2]

QSign(a) == Sgn(a[1])

QAbs(a) == <<Abs(a[1]), a[2]>>

QIsInt(a) == a[2] = 1

QFloor(a) == FloorDiv(a[1], a[2])

QCeil(a) == CeilDiv(a[1], a[2])

\* a ** k for a natural exponent k
RECURSIVE QPowNat(_, _)
QPowNat(a, k) == IF k = 0 THEN Q(1) ELSE QMul(a, QPowNat(a, k - 1))

\* a ** k for an integer exponent k (a # 0 when k < 0)
QPow(a, k) == IF k >= 0 THEN QPowNat(a, k) ELSE QInv(QPowNat(a, -k))

RECURSIVE QSum(_)
QSum(s) == IF s = <<>> THEN Q(0) ELSE QAdd(s[1], QSum(Tail(s)))

\* Rounding of 1 + x.  In Python 1 + x == 1.0 for every |x| <= 2^-53, the
\* unit roundoff of a float.  The model keeps this one rounding, with the
\* threshold scaled to UnitRoundoff: far below every other rate that is
\* enumerated, and above TinyRate and its multiples by 1/2 .. 3/2.
UnitRoundoff == <<1, 500000>>

TinyRate == <<1, 1000000>>

\* 1 + x as the float addition computes it
OnePlus(x) ==
  IF x # Q(0) /\ QLe(QAbs(x), UnitRoundoff) THEN Q(1) ELSE QAdd(Q(1), x)

(***************************************************************************)
(* Natural numbers of any size, as little-endian sequences of limbs in     *)
(* base BigBase with no leading zero limb (<<>> is 0).  Only the root      *)
(* finders below need them: the powers they compare exceed TLC's integers. *)
(***************************************************************************)
BigBase == 100

RECURSIVE BigFromInt(_)
BigFromInt(k) == IF k = 0 THEN <<>> ELSE <<k % BigBase>> \o BigFromInt(k \div BigBase)

\* b * k + carry, for a small natural k
RECURSIVE BigMulAdd(_, _, _)
BigMulAdd(b, k, carry) ==
  IF b = <<>> THEN BigFromInt(carry)
  ELSE LET t == b[1] * k + carry
       IN  <<t % BigBase>> \o BigMulAdd(Tail(b), k, t \div BigBase)

RECURSIVE BigTrim(_)
BigTrim(b) ==
  IF b = <<>> THEN <<>>
  ELSE IF b[Len(b)] = 0 THEN BigTrim(SubSeq(b, 1, Len(b) - 1)) ELSE b

BigMulSmall(b, k) == BigTrim(BigMulAdd(b, k, 0))

RECURSIVE BigAddC(_, _, _)
BigAddC(a, b, carry) ==
  IF a = <<>> /\ b = <<>> THEN BigFromInt(carry)
  ELSE LET x == IF a = <<>> THEN 0 ELSE a[1]
           y == IF b = <<>> THEN 0 ELSE b[1]
           t == x + y + carry
       IN  <<t % BigBase>>
           \o BigAddC(IF a = <<>> THEN <<>> ELSE Tail(a),
                      IF b = <<>> THEN <<>> ELSE Tail(b), t \div BigBase)

BigAdd(a, b) == BigAddC(a, b, 0)

RECURSIVE BigMul(_, _)
BigMul(a, b) ==
  IF a = <<>> \/ b = <<>> THEN <<>>
  ELSE LET rest == BigMul(a, Tail(b))
       IN  BigAdd(BigMulSmall(a, b[1]),
                  IF rest = <<>> THEN <<>> ELSE <<0>> \o rest)

\* b * k ^ e
RECURSIVE BigMulPow(_, _, _)
BigMulPow(b, k, e) == IF e = 0 THEN b ELSE BigMulPow(BigMulSmall(b, k), k, e - 1)

\* -1, 0, 1 as a < b, a = b, a > b
RECURSIVE BigCmpFrom(_, _, _)
BigCmpFrom(a, b, i) ==
  IF i = 0 THEN 0
  ELSE IF a[i] < b[i] THEN -1
  ELSE IF a[i] > b[i] THEN 1
  ELSE BigCmpFrom(a, b, i - 1)

BigCmp(a, b) ==
  IF Len(a) < Len(b) THEN -1
  ELSE IF Len(a) > Len(b) THEN 1
  ELSE BigCmpFrom(a, b, Len(a))

(***************************************************************************)
(* Values of the result mapping: a number or a sentinel string             *)
(***************************************************************************)
Num(q) == [t |-> "num", v |-> q]

Str(s) == [t |-> "str", v |-> s]

\* a library result that is NaN or infinite (np.isnan / np.isinf)
NonFinite == [t |-> "nonfinite", v |-> "nan/inf"]

IsNum(x) == x.t = "num"

(***************************************************************************)
(* Library functions (numpy_financial 1.0, numpy)                          *)
(***************************************************************************)
\* the sum with values[0] discounted by one period, as a sum over t = 1..M
npf_npv_FromPeriodOne(rate, values) ==
  QSum([i \in 1..Len(values) |->
          QDiv(values[i], QPowNat(OnePlus(rate), i))])

\* npf.npv(rate, values) = sum over t = 0 .. M-1 of values[t] / (1+rate)^t:
\* the library discounts values[0] by zero periods.  Needs 1 + rate # 0.
npf_npv(rate, values) ==
  QSum([i \in 1..Len(values) |->
          QDiv(values[i], QPowNat(OnePlus(rate), i - 1))])

\* the values as integers: all multiplied by the lcm of their denominators
RECURSIVE DenLcm(_)
DenLcm(values) ==
  IF values = <<>> THEN 1 ELSE Lcm(values[1][2], DenLcm(Tail(values)))

IntCoeffs(values) ==
  LET l == DenLcm(values)
  IN  [i \in 1..Len(values) |-> values[i][1] * (l \div values[i][2])]

RECURSIVE SignChangesFrom(_, _, _)
SignChangesFrom(c, i, last) ==
  IF i > Len(c) THEN 0
  ELSE IF c[i] = 0 THEN SignChangesFrom(c, i + 1, last)
  ELSE (IF last # 0 /\ Sgn(c[i]) # last THEN 1 ELSE 0)
       + SignChangesFrom(c, i + 1, Sgn(c[i]))

SignChanges(c) == SignChangesFrom(c, 1, 0)

\* sum of |c[i]| * X^(n-i) * K^i over the coefficients of sign sg (c[0..n])
RECURSIVE PolyPart(_, _, _, _, _)
PolyPart(c, X, K, sg, i) ==
  IF i > Len(c) THEN <<>>
  ELSE LET rest == PolyPart(c, X, K, sg, i + 1)
       IN  IF Sgn(c[i]) # sg THEN rest
           ELSE BigAdd(BigMulPow(BigMulPow(BigFromInt(Abs(c[i])), X, Len(c) - i),
                                 K, i - 1), rest)

\* sign of sum c[i] / (X/K)^i, the NPV of c at the rate X/K - 1, for X > 0;
\* at X = 0 the sign of the last coefficient
PolySign(c, X, K) == BigCmp(PolyPart(c, X, K, 1, 1), PolyPart(c, X, K, -1, 1))

\* the largest X in lo..hi-1 with PolySign * s >= 0, given that it holds at
\* lo and fails at hi (bisection)
RECURSIVE Bisect(_, _, _, _, _)
Bisect(c, K, s, lo, hi) ==
  IF hi - lo <= 1 THEN lo
  ELSE LET mid == (lo + hi) \div 2
       IN  IF PolySign(c, mid, K) * s >= 0 THEN Bisect(c, K, s, mid, hi)
           ELSE Bisect(c, K, s, lo, mid)

RECURSIVE MaxAbs(_)
MaxAbs(c) == IF c = <<>> THEN 0 ELSE Max2(Abs(c[1]), MaxAbs(Tail(c)))

\* Cauchy's bound: every root x = 1 + r of the polynomial is below this
RootBound(c) == 1 + CeilDiv(MaxAbs(Tail(c)), Abs(c[1]))

\* The roots found between consecutive scan points j*step, (j+1)*step: an
\* exact zero at a scan point, or a sign change bracketed and bisected.
ScanStep == Max2(1, RootScale \div 4)

ScanRoots(c) ==
  LET K == RootScale
      J == CeilDiv(K * RootBound(c), ScanStep)
      sg(j) == PolySign(c, j * ScanStep, K)
  IN  {j * ScanStep : j \in {i \in 1..J : sg(i) = 0}}
      \cup {Bisect(c, K, sg(j), j * ScanStep, (j + 1) * ScanStep) :
              j \in {i \in 0..(J - 1) : sg(i) # 0 /\ sg(i + 1) = -sg(i)}}

RateOfX(X) == QNorm(X - RootScale, RootScale)

\* npf.irr(values): the real root r > -1 of sum values[t] / (1+r)^t = 0 that
\* is nearest to zero, NaN when there is none.  With no sign change there
\* is no root; with one sign change there is exactly one (Descartes), found
\* by bisection; with more the library's pick is not pinned down, and the
\* model allows NaN and each root it finds.  values[0] # 0.
npf_irr(values) ==
  LET c == IntCoeffs(values)
      n == SignChanges(c)
  IN  IF n = 0 THEN {NonFinite}
      ELSE IF n = 1
        THEN {Num(RateOfX(Bisect(c, RootScale, -Sgn(c[1]), 0,
                                 RootScale * RootBound(c))))}
      ELSE {NonFinite} \cup {Num(RateOfX(X)) : X \in ScanRoots(c)}

\* the largest Y in lo..hi-1 with (Y*b)^m * w <= (K*a)^m * u
RECURSIVE RootBisect(_, _, _, _, _, _, _, _)
RootBisect(m, u, w, a, b, K, lo, hi) ==
  IF hi - lo <= 1 THEN lo
  ELSE LET mid == (lo + hi) \div 2
           lhs == BigMulPow(BigFromInt(w), mid * b, m)
           rhs == BigMulPow(BigFromInt(u), K * a, m)
       IN  IF BigCmp(lhs, rhs) <= 0 THEN RootBisect(m, u, w, a, b, K, mid, hi)
           ELSE RootBisect(m, u, w, a, b, K, lo, mid)

Keep(values, sg) ==
  [i \in 1..Len(values) |-> IF QSign(values[i]) = sg THEN values[i] ELSE Q(0)]

\* npf.mirr(values, finance_rate, reinvest_rate):
\*   NaN unless values has a positive and a negative entry; else
\*   (|npv(reinvest, positives)| / |npv(finance, negatives)|)^(1/(n-1))
\*     * (1 + reinvest) - 1,
\* here truncated to a multiple of 1/RootScale.  Needs both rates > -1.
npf_mirr(values, finance_rate, reinvest_rate) ==
  IF ~(\E i \in 1..Len(values) : QSign(values[i]) > 0)
     \/ ~(\E i \in 1..Len(values) : QSign(values[i]) < 0)
  THEN NonFinite
  ELSE LET numer == QAbs(npf_npv(reinvest_rate, Keep(values, 1)))
           denom == QAbs(npf_npv(finance_rate, Keep(values, -1)))
           ratio == QDiv(numer, denom)
           grow  == OnePlus(reinvest_rate)
           top   == QMul(grow, IF QLt(ratio, Q(1)) THEN Q(1) ELSE ratio)
           Y     == RootBisect(Len(values) - 1, ratio[1], ratio[2],
                               grow[1], grow[2], RootScale,
                               0, RootScale * (QCeil(top) + 1))
       IN  Num(RateOfX(Y))

\* round(x, 2): the nearest multiple of 1/100; on an exact tie either one
Round2(x) ==
  LET h == QMul(x, Q(100))
      f == QFloor(h)
      frac2 == QMul(QSub(h, Q(f)), Q(2))
  IN  IF QLt(frac2, Q(1)) THEN {QNorm(f, 100)}
      ELSE IF QLt(Q(1), frac2) THEN {QNorm(f + 1, 100)}
      ELSE {QNorm(f, 100), QNorm(f + 1, 100)}

(***************************************************************************)
(* capital_budgeting_logic.py                                              *)
(***************************************************************************)
None == <<>>

\* the loop adding the fraction to year instead of year - 1
RECURSIVE PaybackLoop_FromYear(_, _, _, _)
PaybackLoop_FromYear(investment, cash_flows, i, cum) ==
  IF i > Len(cash_flows) THEN {Str("Never")}
  ELSE LET year == i
           cash_flow == cash_flows[i]
           cumulative_cash_flow == QAdd(cum, cash_flow)
           last_year_cumulative == QSub(cumulative_cash_flow, cash_flow)
           needed_from_this_year == QSub(investment, last_year_cumulative)
           payback == QAdd(Q(year), QDiv(needed_from_this_year, cash_flow))
       IN  IF QLe(investment, cumulative_cash_flow) /\ ~QLe(cash_flow, Q(0))
             THEN {Num(r) : r \in Round2(payback)}
             ELSE PaybackLoop_FromYear(investment, cash_flows, i + 1,
                                       cumulative_cash_flow)

\* the loop testing cumulative_cash_flow > investment instead of >=
RECURSIVE PaybackLoop_Strict(_, _, _, _)
PaybackLoop_Strict(investment, cash_flows, i, cum) ==
  IF i > Len(cash_flows) THEN {Str("Never")}
  ELSE LET year == i
           cash_flow == cash_flows[i]
           cumulative_cash_flow == QAdd(cum, cash_flow)
           last_year_cumulative == QSub(cumulative_cash_flow, cash_flow)
           needed_from_this_year == QSub(investment, last_year_cumulative)
           payback == QAdd(Q(year - 1), QDiv(needed_from_this_year, cash_flow))
       IN  IF QLt(investment, cumulative_cash_flow) /\ ~QLe(cash_flow, Q(0))
             THEN {Num(r) : r \in Round2(payback)}
             ELSE PaybackLoop_Strict(investment, cash_flows, i + 1,
                                     cumulative_cash_flow)

\* the loop measuring what is needed from cumulative_cash_flow instead of
\* last_year_cumulative
RECURSIVE PaybackLoop_NeededFromCumulative(_, _, _, _)
PaybackLoop_NeededFromCumulative(investment, cash_flows, i, cum) ==
  IF i > Len(cash_flows) THEN {Str("Never")}
  ELSE LET year == i
           cash_flow == cash_flows[i]
           cumulative_cash_flow == QAdd(cum, cash_flow)
           needed_from_this_year == QSub(investment, cumulative_cash_flow)
           payback == QAdd(Q(year - 1), QDiv(needed_from_this_year, cash_flow))
       IN  IF QLe(investment, cumulative_cash_flow) /\ ~QLe(cash_flow, Q(0))
             THEN {Num(r) : r \in Round2(payback)}
             ELSE PaybackLoop_NeededFromCumulative(investment, cash_flows, i + 1,
                                                   cumulative_cash_flow)

\* _calculate_payback, lines 116-131: the loop from period i on, with
\* cumulative_cash_flow = cum
RECURSIVE PaybackLoop(_, _, _, _)
PaybackLoop(investment, cash_flows, i, cum) ==
  IF i > Len(cash_flows) THEN {Str("Never")}
  ELSE LET year == i
           cash_flow == cash_flows[i]
           cumulative_cash_flow == QAdd(cum, cash_flow)
           last_year_cumulative == QSub(cumulative_cash_flow, cash_flow)
           needed_from_this_year == QSub(investment, last_year_cumulative)
           payback == QAdd(Q(year - 1), QDiv(needed_from_this_year, cash_flow))
       IN  IF QLe(investment, cumulative_cash_flow) /\ ~QLe(cash_flow, Q(0))
             THEN {Num(r) : r \in Round2(payback)}
             ELSE PaybackLoop(investment, cash_flows, i + 1, cumulative_cash_flow)

\* the possible results: one, or two when round() meets an exact tie
_calculate_payback(investment, cash_flows) ==
  PaybackLoop(investment, cash_flows, 1, Q(0))

\* the loop discounting period i by (1 + rate) ** (year - 1)
RECURSIVE DiscPaybackLoop_ExponentFromZero(_, _, _, _, _)
DiscPaybackLoop_ExponentFromZero(rate, investment, cash_flows, i, cum) ==
  IF i > Len(cash_flows) THEN {Str("Never")}
  ELSE LET year == i
           cash_flow == cash_flows[i]
           discounted_cf == QDiv(cash_flow, QPowNat(OnePlus(rate), year - 1))
           cumulative == QAdd(cum, discounted_cf)
           last_year_cumulative_discounted == QSub(cumulative, discounted_cf)
           needed_from_this_year ==
             QSub(investment, last_year_cumulative_discounted)
           discounted_payback ==
             QAdd(Q(year - 1), QDiv(needed_from_this_year, discounted_cf))
       IN  IF QLe(investment, cumulative) /\ ~QLe(discounted_cf, Q(0))
             THEN {Num(r) : r \in Round2(discounted_payback)}
             ELSE DiscPaybackLoop_ExponentFromZero(rate, investment, cash_flows,
                                                   i + 1, cumulative)

\* the loop compounding period i by (1 + rate) ** year instead of
\* discounting it
RECURSIVE DiscPaybackLoop_Compounded(_, _, _, _, _)
DiscPaybackLoop_Compounded(rate, investment, cash_flows, i, cum) ==
  IF i > Len(cash_flows) THEN {Str("Never")}
  ELSE LET year == i
           cash_flow == cash_flows[i]
           discounted_cf == QMul(cash_flow, QPowNat(OnePlus(rate), year))
           cumulative == QAdd(cum, discounted_cf)
           last_year_cumulative_discounted == QSub(cumulative, discounted_cf)
           needed_from_this_year ==
             QSub(investment, last_year_cumulative_discounted)
           discounted_payback ==
             QAdd(Q(year - 1), QDiv(needed_from_this_year, discounted_cf))
       IN  IF QLe(investment, cumulative) /\ ~QLe(discounted_cf, Q(0))
             THEN {Num(r) : r \in Round2(discounted_payback)}
             ELSE DiscPaybackLoop_Compounded(rate, investment, cash_flows,
                                             i + 1, cumulative)

\* _calculate_discounted_payback, lines 137-152: the loop from period i on,
\* with cumulative_discounted_cash_flow = cum
RECURSIVE DiscPaybackLoop(_, _, _, _, _)
DiscPaybackLoop(rate, investment, cash_flows, i, cum) ==
  IF i > Len(cash_flows) THEN {Str("Never")}
  ELSE LET year == i
           cash_flow == cash_flows[i]
           discounted_cf == QDiv(cash_flow, QPowNat(OnePlus(rate), year))
           cumulative == QAdd(cum, discounted_cf)
           last_year_cumulative_discounted == QSub(cumulative, discounted_cf)
           needed_from_this_year ==
             QSub(investment, last_year_cumulative_discounted)
           discounted_payback ==
             QAdd(Q(year - 1), QDiv(needed_from_this_year, discounted_cf))
       IN  IF QLe(investment, cumulative) /\ ~QLe(discounted_cf, Q(0))
             THEN {Num(r) : r \in Round2(discounted_payback)}
             ELSE DiscPaybackLoop(rate, investment, cash_flows, i + 1, cumulative)

_calculate_discounted_payback(rate, investment, cash_flows) ==
  DiscPaybackLoop(rate, investment, cash_flows, 1, Q(0))

\* the three validation messages of calculate_all_metrics
MsgNoCashFlows == "No future cash flows provided."

MsgInvestment == "Initial investment must be a positive number."

MsgRate == "Discount rate cannot be -100% or less."

\* Validate without the rate check of lines 32-33
Validate_NoRateCheck(a) ==
  IF a.future_cash_flows = <<>> THEN MsgNoCashFlows
  ELSE IF QLe(a.initial_investment_positive, Q(0)) THEN MsgInvestment
  ELSE ""

\* lines 28-33: the message of the ValueError raised, "" when none is
Validate(a) ==
  IF a.future_cash_flows = <<>> THEN MsgNoCashFlows
  ELSE IF QLe(a.initial_investment_positive, Q(0)) THEN MsgInvestment
  ELSE IF QLe(a.rate, Q(-1)) THEN MsgRate
  ELSE ""

\* reinvestment_rate defaulting to 0 instead of rate
ReinvestmentRate_DefaultZero(a) ==
  IF a.reinvestment_rate = None THEN Q(0) ELSE a.reinvestment_rate

\* lines 36-39
ReinvestmentRate(a) ==
  IF a.reinvestment_rate = None THEN a.rate ELSE a.reinvestment_rate

FinanceRate(a) == IF a.finance_rate = None THEN a.rate ELSE a.finance_rate

\* line 45
PvFutureFlows(a) == npf_npv(a.rate, a.future_cash_flows)

\* lines 41, 46
NpvEntry(a, pv_future_flows) ==
  LET initial_investment_negative == QNeg(a.initial_investment_positive)
  IN  QAdd(pv_future_flows, initial_investment_negative)

\* all_cash_flows built from the positive investment, its sign not flipped
AllCashFlows_PositiveOutlay(initial_investment_positive, future_cash_flows) ==
  <<initial_investment_positive>> \o future_cash_flows

\* lines 41, 49
AllCashFlows(initial_investment_positive, future_cash_flows) ==
  <<QNeg(initial_investment_positive)>> \o future_cash_flows

\* the exception classes the two try blocks catch (lines 57, 67)
Caught == {"ValueError", "RuntimeError"}

Ok(entry) == [exc |-> "none", value |-> entry]

Throw(exc) == [exc |-> exc, value |-> Str("")]

\* lines 50-58 and 61-68: the try block around a library call that ended as
\* call says (call.exc: the exception it raised, or "none" and call.value)
TryEntry(call) ==
  IF call.exc = "none"
    THEN IF call.value.t = "nonfinite"
           THEN Ok(Str("N/A (No Valid Solution)"))
           ELSE Ok(call.value)
  ELSE IF call.exc \in Caught THEN Ok(Str("N/A (Calculation Error)"))
  ELSE Throw(call.exc)

\* lines 81-84
PiEntry(a, pv_future_flows) ==
  IF a.initial_investment_positive = Q(0) THEN Str("N/A (No Investment)")
  ELSE Num(QDiv(pv_future_flows, a.initial_investment_positive))

\* line 45: no release of numpy_financial is pinned, and npf.npv returns a
\* numpy.float64 in some releases (the sum of an array) and a Python float
\* in others (that sum's .item()); results['npv'] has the same type
NpvTypes == {"float", "numpy.float64"}

\* lines 87-96; npv is results['npv'] and npv_type its type
EaaEntry(a, npv, npv_type) ==
  LET n_years == Len(a.future_cash_flows)
      base == OnePlus(a.rate)
  IN  IF npv # Q(0) /\ n_years > 0
        THEN IF a.rate # Q(0) /\ base = Q(0)
               THEN Str("N/A (Calculation Error)")  \* 0.0 ** -n: ZeroDivisionError
             ELSE LET pv_annuity_factor ==
                        IF a.rate # Q(0)
                          THEN QDiv(QSub(Q(1), QPow(base, -n_years)), a.rate)
                          ELSE Q(n_years)
                  IN  IF pv_annuity_factor = Q(0)
                        THEN IF npv_type = "numpy.float64"
                               THEN NonFinite  \* inf, with a warning
                               ELSE Str("N/A (Calculation Error)")  \* line 94
                        ELSE Num(QDiv(npv, pv_annuity_factor))
        ELSE Str("N/A")

\* BcrEntry dividing the net present value instead of pv_future_flows
BcrEntry_OfNpv(a, pv_future_flows) ==
  IF QLt(Q(0), a.initial_investment_positive)
    THEN Num(QDiv(NpvEntry(a, pv_future_flows), a.initial_investment_positive))
    ELSE Str("N/A")

\* lines 99-102
BcrEntry(a, pv_future_flows) ==
  IF QLt(Q(0), a.initial_investment_positive)
    THEN Num(QDiv(pv_future_flows, a.initial_investment_positive))
    ELSE Str("N/A")

\* line 105
TotalCashFlow(a) == QSub(QSum(a.future_cash_flows), a.initial_investment_positive)

\* line 108
AvgAnnualCashFlow(a) ==
  QDiv(QSum(a.future_cash_flows), Q(Len(a.future_cash_flows)))

Raised(exc, msg, computed) ==
  [kind |-> "raised", exc |-> exc, msg |-> msg, computed |-> computed]

Returned(value) == [kind |-> "returned", value |-> value]

\* the ten blocks of calculate_all_metrics in source order (lines 44-108)
Metrics ==
  <<"npv", "irr", "mirr", "payback_period", "discounted_payback_period",
    "profitability_index", "eaa", "benefit_cost_ratio", "total_cash_flow",
    "avg_annual_cash_flow">>

\* the entries of the blocks that only do arithmetic on the arguments
\* (lines 45-46, 81-108), by key; pv_future_flows is the local of line 45
\* and the EAA block reads results['npv']
ArithmeticBlocks(a, npv_type) ==
  LET pv_future_flows == PvFutureFlows(a)
      npv == NpvEntry(a, pv_future_flows)
  IN  [npv |-> Num(npv),
       profitability_index |-> PiEntry(a, pv_future_flows),
       eaa |-> EaaEntry(a, npv, npv_type),
       benefit_cost_ratio |-> BcrEntry(a, pv_future_flows),
       total_cash_flow |-> Num(TotalCashFlow(a)),
       avg_annual_cash_flow |-> Num(AvgAnnualCashFlow(a))]

\* the arithmetic entries a call can produce
ArithmeticOutcomes(a) == {ArithmeticBlocks(a, npv_type) : npv_type \in NpvTypes}

\* the block that sets results[key]; env holds how the two library calls
\* ended and what the two payback helpers returned
MetricBlock(key, blocks, env) ==
  CASE key = "irr" -> TryEntry(env.irr)
    [] key = "mirr" -> TryEntry(env.mirr)
    [] key = "payback_period" -> Ok(env.pb)
    [] key = "discounted_payback_period" -> Ok(env.dpb)
    [] OTHER -> Ok(blocks[key])

NoResults == [k \in {} |-> Str("")]

\* blocks i.. run in order on the results so far; an exception that a block
\* does not catch leaves the function and results is lost
RECURSIVE RunMetrics(_, _, _, _)
RunMetrics(blocks, env, i, results) ==
  IF i > Len(Metrics) THEN Returned(results)
  ELSE LET r == MetricBlock(Metrics[i], blocks, env)
       IN  IF r.exc # "none" THEN Raised(r.exc, "", DOMAIN results)
           ELSE RunMetrics(blocks, env, i + 1, (Metrics[i] :> r.value) @@ results)

\* the exceptions a library call is taken to raise
LibExc == {"ValueError", "RuntimeError", "MemoryError"}

\* how the two library calls of one run end, as <<npf.irr, npf.mirr>>, each
\* the exception raised or "none": both return, one raises, or both raise
\* the same caught exception
LibFaults ==
  {<<"none", "none">>}
  \cup {<<e, "none">> : e \in LibExc} \cup {<<"none", e>> : e \in LibExc}
  \cup {<<e, e>> : e \in Caught}

LibCall(exc, value) == IF exc = "none" THEN Ok(value) ELSE Throw(exc)

\* line 139: the cash flows as _calculate_discounted_payback discounts them
DiscountedFlows(rate, cash_flows) ==
  [i \in 1..Len(cash_flows) |->
     QDiv(cash_flows[i], QPowNat(OnePlus(rate), i))]

\* round() is a function of its operand: when every discounted cash flow
\* equals the cash flow itself, the loops of lines 116-129 and 137-150 do the
\* same float operations and round the same number the same way
SameRounding(a) == DiscountedFlows(a.rate, a.future_cash_flows) = a.future_cash_flows

\* what the two payback helpers return in one call, as
\* <<payback, discounted payback>>
PaybackPairs(a) ==
  LET pbs == _calculate_payback(a.initial_investment_positive,
                                a.future_cash_flows)
      dpbs == _calculate_discounted_payback(a.rate,
                                            a.initial_investment_positive,
                                            a.future_cash_flows)
  IN  IF SameRounding(a) THEN {<<pb, pb>> : pb \in pbs} ELSE pbs \X dpbs

\* the environments of a call with valid arguments a, where irrValues are
\* the values npf.irr(all_cash_flows) can return
Envs(a, irrValues) ==
  {[irr |-> LibCall(f[1], v), mirr |-> LibCall(f[2], m),
    pb |-> pair[1], dpb |-> pair[2]] :
     f \in LibFaults, v \in irrValues,
     m \in {npf_mirr(AllCashFlows(a.initial_investment_positive,
                                  a.future_cash_flows),
                     FinanceRate(a), ReinvestmentRate(a))},
     pair \in PaybackPairs(a)}

\* line 51: the values npf.irr(all_cash_flows) can return for project p (it
\* is only called when the validation of lines 28-31 has passed)
IrrValues(p) ==
  IF p.future_cash_flows = <<>> \/ QLe(p.initial_investment_positive, Q(0))
    THEN {}
    ELSE npf_irr(AllCashFlows(p.initial_investment_positive, p.future_cash_flows))

\* calculate_all_metrics, lines 27-110: validation first, then the blocks;
\* the outcomes of a call with arguments a, one for each environment
CalcAllMetricsOutcomes(a, irrValues) ==
  IF Validate(a) # ""
    THEN {Raised("ValueError", Validate(a), DOMAIN NoResults)}
    ELSE {RunMetrics(blocks, env, 1, NoResults) :
            blocks \in ArithmeticOutcomes(a), env \in Envs(a, irrValues)}

\* linspace without its endpoint: num steps of (stop - start) / num
np_linspace_NoEndpoint(start, stop, num) ==
  [i \in 1..num |-> QAdd(start, QMul(Q(i - 1), QDiv(QSub(stop, start), Q(num))))]

\* np.linspace(start, stop, num): num samples start + i * step with
\* step = (stop - start) / (num - 1); for num > 1 the last is set to stop,
\* for num = 1 the only sample is start
np_linspace(start, stop, num) ==
  [i \in 1..num |->
     IF num > 1 /\ i = num THEN stop
     ELSE IF num = 1 THEN start
     ELSE QAdd(start, QMul(Q(i - 1), QDiv(QSub(stop, start), Q(num - 1))))]

\* calculate_npv_profile, lines 173-183: <<rates, npvs>>
calculate_npv_profile(initial_investment_positive, future_cash_flows, rate_range, num_points) ==
  LET rates == np_linspace(rate_range[1], rate_range[2], num_points)
      initial_investment_negative == QNeg(initial_investment_positive)
  IN  <<rates,
        [k \in 1..Len(rates) |->
           QAdd(npf_npv(rates[k], future_cash_flows), initial_investment_negative)]>>

\* the loop appending each period's cash flow instead of the running sum
RECURSIVE CumulativeLoop_NotAccumulated(_, _, _, _, _)
CumulativeLoop_NotAccumulated(future_cash_flows, rate, i, cumulative_undiscounted, cumulative_discounted) ==
  IF i > Len(future_cash_flows)
    THEN <<cumulative_undiscounted, cumulative_discounted>>
    ELSE LET cf == future_cash_flows[i]
             year == i
             discounted_cf == QDiv(cf, QPowNat(OnePlus(rate), year))
         IN  CumulativeLoop_NotAccumulated(future_cash_flows, rate, i + 1,
               Append(cumulative_undiscounted, cf),
               Append(cumulative_discounted, discounted_cf))

\* calculate_cumulative_cash_flows, lines 197-210:
\* <<years, cumulative_undiscounted, cumulative_discounted>>
RECURSIVE CumulativeLoop(_, _, _, _, _)
CumulativeLoop(future_cash_flows, rate, i, cumulative_undiscounted, cumulative_discounted) ==
  IF i > Len(future_cash_flows)
    THEN <<cumulative_undiscounted, cumulative_discounted>>
    ELSE LET cf == future_cash_flows[i]
             year == i
             discounted_cf == QDiv(cf, QPowNat(OnePlus(rate), year))
         IN  CumulativeLoop(future_cash_flows, rate, i + 1,
               Append(cumulative_undiscounted,
                      QAdd(cumulative_undiscounted[Len(cumulative_undiscounted)], cf)),
               Append(cumulative_discounted,
                      QAdd(cumulative_discounted[Len(cumulative_discounted)],
                           discounted_cf)))

calculate_cumulative_cash_flows(initial_investment_positive, future_cash_flows, rate) ==
  LET years == [k \in 1..(Len(future_cash_flows) + 1) |-> k - 1]
      series == CumulativeLoop(future_cash_flows, rate, 1,
                               <<QNeg(initial_investment_positive)>>,
                               <<QNeg(initial_investment_positive)>>)
  IN  <<years, series[1], series[2]>>

\* the 'base' entry read at index 0 instead of index 1
Triple_BaseAtLow(x) == [low |-> Num(x[1]), base |-> Num(x[1]), high |-> Num(x[3])]

Triple(x) == [low |-> Num(x[1]), base |-> Num(x[2]), high |-> Num(x[3])]

\* the comprehension of lines 254 and 256 scaling only the first cash flow
Scale_FirstOnly(cash_flows, factor) ==
  [i \in 1..Len(cash_flows) |->
     IF i = 1 THEN QMul(cash_flows[i], factor) ELSE cash_flows[i]]

Scale(cash_flows, factor) ==
  [i \in 1..Len(cash_flows) |-> QMul(cash_flows[i], factor)]

\* lines 235-239: the rates of the discount-rate sweep
SensitivityRates(base_rate, variation) ==
  <<QMul(base_rate, QSub(Q(1), variation)), base_rate,
    QMul(base_rate, QAdd(Q(1), variation))>>

\* perform_sensitivity_analysis, lines 231-288
perform_sensitivity_analysis(initial_investment_positive, future_cash_flows, base_rate, variation_percent) ==
  LET variation == QDiv(variation_percent, Q(100))
      down == QSub(Q(1), variation)
      up == QAdd(Q(1), variation)
      rates == SensitivityRates(base_rate, variation)
      rate_npvs ==
        [k \in 1..3 |->
           QSub(npf_npv(rates[k], future_cash_flows), initial_investment_positive)]
      cf_variations ==
        <<Scale(future_cash_flows, down), future_cash_flows,
          Scale(future_cash_flows, up)>>
      cf_npvs ==
        [k \in 1..3 |->
           QSub(npf_npv(base_rate, cf_variations[k]), initial_investment_positive)]
      inv_variations ==
        <<QMul(initial_investment_positive, down), initial_investment_positive,
          QMul(initial_investment_positive, up)>>
      pv == npf_npv(base_rate, future_cash_flows)
      inv_npvs == [k \in 1..3 |-> QSub(pv, inv_variations[k])]
  IN  [discount_rate |-> Triple(rate_npvs),
       cash_flows |-> Triple(cf_npvs),
       initial_investment |-> Triple(inv_npvs)]

(***************************************************************************)
(* The inputs enumerated                                                   *)
(***************************************************************************)
RECURSIVE SeqsUpTo(_, _)
SeqsUpTo(S, n) ==
  IF n = 0 THEN {<<>>}
  ELSE LET shorter == SeqsUpTo(S, n - 1)
       IN  shorter \cup {<<x>> \o t : x \in S, t \in {u \in shorter : Len(u) = n - 1}}

CashFlowLists == SeqsUpTo({Q(k) : k \in -1..MaxCF}, MaxLen)

Investments == {Q(k) : k \in -1..MaxInv}

Project(inv, cfs) ==
  [initial_investment_positive |-> Q(inv),
   future_cash_flows |-> [i \in 1..Len(cfs) |-> Q(cfs[i])]]

\* the projects of the examples of spec section 8 (amounts in thousands),
\* and projects whose payback lands on, next to, or half-way between
\* hundredths of a period
ExampleProjects ==
  {Project(100, <<25, 30, 35, 40, 45>>),
   Project(100, <<5, 5, 5, 5, 5>>),
   Project(299, <<300>>),
   Project(1, <<300>>),
   Project(199, <<200>>),
   Project(301, <<100, 300>>),
   Project(399, <<100, 300>>)}

Projects ==
  [initial_investment_positive : Investments, future_cash_flows : CashFlowLists]
  \cup ExampleProjects

Rates == {Q(-2), Q(-1), <<-4, 5>>, Q(0), TinyRate, <<1, 10>>}

ReinvestmentRates == {None, Q(0)}

FinanceRates == {None, <<1, 2>>}

\* the rate ranges and sample counts of the NPV profile; (0, 0.50) is the
\* default range
RateRanges == {<<Q(0), <<1, 2>>>>, <<Q(0), Q(1)>>, <<<<-1, 2>>, <<1, 2>>>>}

NumPoints == 0..MaxPoints

\* the base rates (all > -1) and the variations, in percent, of the
\* sensitivity analysis; 20 is the default variation
BaseRates == {r \in Rates : QLt(Q(-1), r)}

VariationPercents == {Q(0), Q(20), Q(50)}

MetricsArgs(p, rate, reinvestment_rate, finance_rate) ==
  [rate |-> rate,
   initial_investment_positive |-> p.initial_investment_positive,
   future_cash_flows |-> p.future_cash_flows,
   reinvestment_rate |-> reinvestment_rate, finance_rate |-> finance_rate]

(***************************************************************************)
(* The state machine                                                       *)
(***************************************************************************)
\* the cash-flow lists a caller builds, and the projects on one list
CashFlowListObjects == {p.future_cash_flows : p \in Projects}

ProjectsOn(cash_flows) == {p \in Projects : p.future_cash_flows = cash_flows}

EngineFunctions ==
  {"calculate_all_metrics", "calculate_npv_profile",
   "calculate_cumulative_cash_flows", "perform_sensitivity_analysis"}

\* the calls <<function, arguments>> a caller makes on its list
Calls(cash_flows) ==
  {<<"calculate_all_metrics", MetricsArgs(p, rate, rr, fr)>> :
     p \in ProjectsOn(cash_flows), rate \in Rates,
     rr \in ReinvestmentRates, fr \in FinanceRates}
  \cup
  {<<"calculate_npv_profile",
     [initial_investment_positive |-> p.initial_investment_positive,
      future_cash_flows |-> p.future_cash_flows,
      rate_range |-> rate_range, num_points |-> num_points]>> :
     p \in ProjectsOn(cash_flows), rate_range \in RateRanges,
     num_points \in NumPoints}
  \cup
  {<<"calculate_cumulative_cash_flows",
     [initial_investment_positive |-> p.initial_investment_positive,
      future_cash_flows |-> p.future_cash_flows, rate |-> rate]>> :
     p \in ProjectsOn(cash_flows), rate \in BaseRates}
  \cup
  {<<"perform_sensitivity_analysis",
     [initial_investment_positive |-> p.initial_investment_positive,
      future_cash_flows |-> p.future_cash_flows,
      base_rate |-> base_rate, variation_percent |-> variation_percent]>> :
     p \in ProjectsOn(cash_flows), base_rate \in BaseRates,
     variation_percent \in VariationPercents}

\* perform_sensitivity_analysis scaling the list of line 255 in place
ListAfterCall_ScaledInPlace(f, cash_flows) ==
  IF f = "perform_sensitivity_analysis"
    THEN [i \in 1..Len(cash_flows) |-> QMul(cash_flows[i], Q(2))]
    ELSE cash_flows

\* The caller's list after function f has run on it.  No statement of the
\* engine assigns to an element of future_cash_flows or calls a mutating
\* method on it: line 49 concatenates into a new list, lines 254 and 256
\* build new lists, line 255 places the list itself in cf_variations and
\* only reads it, lines 198-208 append to lists of their own.
ListAfterCall(f, cash_flows) == cash_flows

(***************************************************************************)
(* streamlit_app.py: the session                                           *)
(***************************************************************************)
\* a value that may be None
Some(x) == <<x>>

\* lines 111-116: st.session_state after the first run of a new session;
\* sample_loaded is FALSE while the key is absent (line 792 sets it)
NewSession ==
  [calculated |-> FALSE, results |-> None, inputs |-> None,
   sample_loaded |-> FALSE]

\* lines 273-276 and 752-754: what a run of the script shows
WelcomeScreen == [screen |-> "welcome"]

NoRun == [calculate_button |-> FALSE, calculation |-> "none", error |-> ""]

NoArgs == [none |-> TRUE]

NoRet == [kind |-> "none"]

Init ==
  /\ pc = "idle"
  /\ op = "none"
  /\ args = NoArgs
  /\ ret = NoRet
  /\ cash_flow_list = <<>>
  /\ overlapped = 0
  /\ session_state = NewSession
  /\ display = WelcomeScreen
  /\ last_run = NoRun

\* the caller builds another list
NewCashFlowList ==
  /\ pc = "idle"
  /\ cash_flow_list' \in CashFlowListObjects \ {cash_flow_list}
  /\ UNCHANGED <<pc, op, args, ret, overlapped>>
  /\ UNCHANGED dashboard

\* the caller calls an engine function; future_cash_flows is its list
Call ==
  /\ pc = "idle"
  /\ \E c \in Calls(cash_flow_list) :
       /\ op' = c[1]
       /\ args' = c[2]
  /\ pc' = "called"
  /\ UNCHANGED <<ret, cash_flow_list, overlapped>>
  /\ UNCHANGED dashboard

\* the arguments as the body reads them: future_cash_flows is the caller's
\* list object as it is now
ArgsRead == [args EXCEPT !.future_cash_flows = cash_flow_list]

\* the body of calculate_all_metrics(rate, initial_investment_positive,
\* future_cash_flows, reinvestment_rate, finance_rate)
CalculateAllMetrics ==
  /\ pc = "called"
  /\ op = "calculate_all_metrics"
  /\ \E a \in {ArgsRead} :
       ret' \in CalcAllMetricsOutcomes(a,
                  IrrValues([initial_investment_positive |->
                               a.initial_investment_positive,
                             future_cash_flows |-> a.future_cash_flows]))
  /\ cash_flow_list' = ListAfterCall(op, cash_flow_list)
  /\ pc' = "done"
  /\ UNCHANGED <<op, args, overlapped>>
  /\ UNCHANGED dashboard

\* the body of calculate_npv_profile(initial_investment_positive,
\* future_cash_flows, rate_range, num_points)
CalculateNpvProfile ==
  /\ pc = "called"
  /\ op = "calculate_npv_profile"
  /\ \E a \in {ArgsRead} :
       ret' = Returned(calculate_npv_profile(a.initial_investment_positive,
                         a.future_cash_flows, a.rate_range, a.num_points))
  /\ cash_flow_list' = ListAfterCall(op, cash_flow_list)
  /\ pc' = "done"
  /\ UNCHANGED <<op, args, overlapped>>
  /\ UNCHANGED dashboard

\* the body of calculate_cumulative_cash_flows(initial_investment_positive,
\* future_cash_flows, rate)
CalculateCumulativeCashFlows ==
  /\ pc = "called"
  /\ op = "calculate_cumulative_cash_flows"
  /\ \E a \in {ArgsRead} :
       ret' = Returned(calculate_cumulative_cash_flows(
                         a.initial_investment_positive, a.future_cash_flows,
                         a.rate))
  /\ cash_flow_list' = ListAfterCall(op, cash_flow_list)
  /\ pc' = "done"
  /\ UNCHANGED <<op, args, overlapped>>
  /\ UNCHANGED dashboard

\* the body of perform_sensitivity_analysis(initial_investment_positive,
\* future_cash_flows, base_rate, variation_percent)
PerformSensitivityAnalysis ==
  /\ pc = "called"
  /\ op = "perform_sensitivity_analysis"
  /\ \E a \in {ArgsRead} :
       ret' = Returned(perform_sensitivity_analysis(
                         a.initial_investment_positive, a.future_cash_flows,
                         a.base_rate, a.variation_percent))
  /\ cash_flow_list' = ListAfterCall(op, cash_flow_list)
  /\ pc' = "done"
  /\ UNCHANGED <<op, args, overlapped>>
  /\ UNCHANGED dashboard

\* while the call is in progress, another call of an engine function runs
\* on the same list from start to end (another thread, or another task of
\* the dashboard)
ConcurrentCall ==
  /\ pc = "called"
  /\ overlapped < MaxOverlap
  /\ \E f \in EngineFunctions :
       cash_flow_list' = ListAfterCall(f, cash_flow_list)
  /\ overlapped' = overlapped + 1
  /\ UNCHANGED <<pc, op, args, ret>>
  /\ UNCHANGED dashboard

\* the caller takes the outcome
Return ==
  /\ pc = "done"
  /\ pc' = "idle"
  /\ op' = "none"
  /\ args' = NoArgs
  /\ ret' = NoRet
  /\ overlapped' = 0
  /\ UNCHANGED cash_flow_list
  /\ UNCHANGED dashboard

Next ==
  \/ NewCashFlowList
  \/ Call
  \/ CalculateAllMetrics
  \/ CalculateNpvProfile
  \/ CalculateCumulativeCashFlows
  \/ PerformSensitivityAnalysis
  \/ ConcurrentCall
  \/ Return

Spec == Init /\ [][Next]_vars

(***************************************************************************)
(* streamlit_app.py: the dashboard                                         *)
(***************************************************************************)
\* the widget values of one run of the script
\* lines 126-130: the project name typed
ProjectNames == {"New Investment Project", "Plant"}

\* lines 132-139: the initial investment, at least 0.01
DashInvestments == {Q(1), Q(2)}

\* lines 141-149: the discount rate in percent, -99.0 to 100.0
DiscountRatePercents == {Q(-80), Q(0), Q(10)}

\* lines 154-182: <<reinvestment_rate, finance_rate>>, None when the box is
\* not ticked, else two percentages of 0..100 already divided by 100
CustomRates == {<<None, None>>, <<Q(0), <<1, 10>>>>}

\* lines 191-234: the list built by manual entry (one year at least) or read
\* from the uploaded CSV; it stays [] when no usable file is uploaded
DashCashFlowLists == {<<>>, <<Q(2)>>, <<Q(1), Q(2)>>}

\* lines 525-532: the variation slider, 5 to 50
VariationPcts == {Q(5), Q(50)}

Widgets ==
  {[project_name |-> name, initial_investment |-> inv, discount_rate |-> dr,
    reinvestment_rate |-> custom[1], finance_rate |-> custom[2],
    future_cash_flows |-> cfs, variation_pct |-> pct] :
     name \in ProjectNames, inv \in DashInvestments,
     dr \in DiscountRatePercents, custom \in CustomRates,
     cfs \in DashCashFlowLists, pct \in VariationPcts}

\* line 242: rate = discount_rate / 100.0
PercentToRate(discount_rate) == QDiv(discount_rate, Q(100))

\* lines 249-255: the arguments of logic.calculate_all_metrics
EngineArgs(w) ==
  [rate |-> PercentToRate(w.discount_rate),
   initial_investment_positive |-> w.initial_investment,
   future_cash_flows |-> w.future_cash_flows,
   reinvestment_rate |-> w.reinvestment_rate,
   finance_rate |-> w.finance_rate]

\* the calls a click can make, and their outcomes
DashCalls == {EngineArgs(w) : w \in {x \in Widgets : x.future_cash_flows # <<>>}}

ClickOutcomes == [a \in DashCalls |-> CalcAllMetricsOutcomes(a, IrrValues(a))]

\* lines 258-266: the three keys as the handler stores them
StoreResults(session, w, results) ==
  [session EXCEPT
     !.calculated = TRUE,
     !.results = Some(results),
     !.inputs = Some([project_name |-> w.project_name,
                      initial_investment |-> w.initial_investment,
                      discount_rate |-> w.discount_rate,
                      future_cash_flows |-> w.future_cash_flows,
                      rate |-> PercentToRate(w.discount_rate)])]

\* except clauses that clear the three keys
AfterFailedClick_Cleared(session) ==
  [session EXCEPT !.calculated = FALSE, !.results = None, !.inputs = None]

\* lines 268-271: the two except clauses only show the error
AfterFailedClick(session) == session

ErrorShown(exc) ==
  IF exc = "ValueError" THEN "Input Error" ELSE "unexpected error"

\* lines 274-750: with results stored, the tabs are drawn from
\* st.session_state.results and st.session_state.inputs, and the charts call
\* the engine with the arguments recorded here (lines 440-443, 477-480,
\* 534-539); otherwise the welcome screen of lines 752-793
Display(session, w) ==
  IF session.calculated /\ session.results # None
    THEN LET results == session.results[1]
             inputs == session.inputs[1]
         IN  [screen |-> "tabs",
              results |-> results,
              project_name |-> inputs.project_name,
              calculate_cumulative_cash_flows |->
                [initial_investment_positive |-> inputs.initial_investment,
                 future_cash_flows |-> inputs.future_cash_flows,
                 rate |-> inputs.rate],
              calculate_npv_profile |->
                [initial_investment_positive |-> inputs.initial_investment,
                 future_cash_flows |-> inputs.future_cash_flows],
              perform_sensitivity_analysis |->
                [initial_investment_positive |-> inputs.initial_investment,
                 future_cash_flows |-> inputs.future_cash_flows,
                 base_rate |-> inputs.rate,
                 variation_percent |-> w.variation_pct]]
    ELSE WelcomeScreen

\* a run of the script after a widget changed, Calculate not clicked
Rerun ==
  /\ \E w \in Widgets :
       /\ session_state' = session_state
       /\ display' = Display(session_state', w)
  /\ last_run' = [calculate_button |-> FALSE, calculation |-> "none", error |-> ""]
  /\ UNCHANGED engine

\* a run of the script with Calculate clicked (lines 237-271), then the
\* display (lines 273-793)
CalculateClick ==
  /\ \E w \in Widgets :
       /\ IF w.future_cash_flows = <<>>
            THEN /\ session_state' = session_state
                 /\ last_run' = [calculate_button |-> TRUE,
                                 calculation |-> "none", error |-> ""]
            ELSE \E outcome \in ClickOutcomes[EngineArgs(w)] :
                   IF outcome.kind = "returned"
                     THEN /\ session_state' =
                               StoreResults(session_state, w, outcome.value)
                          /\ last_run' = [calculate_button |-> TRUE,
                                          calculation |-> "returned",
                                          error |-> ""]
                     ELSE /\ session_state' = AfterFailedClick(session_state)
                          /\ last_run' = [calculate_button |-> TRUE,
                                          calculation |-> "raised",
                                          error |-> ErrorShown(outcome.exc)]
       /\ display' = Display(session_state', w)
  /\ UNCHANGED engine

\* lines 790-793: the sample button of the welcome screen sets its key and
\* reruns the script
LoadSampleProject ==
  /\ display.screen = "welcome"
  /\ session_state' = [session_state EXCEPT !.sample_loaded = TRUE]
  /\ \E w \in Widgets : display' = Display(session_state', w)
  /\ last_run' = [calculate_button |-> FALSE, calculation |-> "none", error |-> ""]
  /\ UNCHANGED engine

DashboardNext ==
  \/ Rerun
  \/ CalculateClick
  \/ LoadSampleProject

DashboardSpec == Init /\ [][DashboardNext]_vars

(***************************************************************************)
(* Vocabulary of the properties                                            *)
(***************************************************************************)
CalcDone == pc = "done" /\ op = "calculate_all_metrics"

CalcReturned == CalcDone /\ ret.kind = "returned"

\* the preconditions of calculate_all_metrics, field by field
ViolatedFields(a) ==
  (IF a.future_cash_flows = <<>> THEN {"future_cash_flows"} ELSE {})
  \cup (IF QLe(a.initial_investment_positive, Q(0))
          THEN {"initial_investment_positive"} ELSE {})
  \cup (IF QLe(a.rate, Q(-1)) THEN {"rate"} ELSE {})

ValidArgs(a) == ViolatedFields(a) = {}

\* the field a validation message names
FieldNamed(msg) ==
  CASE msg = "No future cash flows provided." -> "future_cash_flows"
    [] msg = "Initial investment must be a positive number." ->
         "initial_investment_positive"
    [] msg = "Discount rate cannot be -100% or less." -> "rate"
    [] OTHER -> "none"

IsValidationError(r) ==
  r.kind = "raised" /\ r.exc = "ValueError" /\ FieldNamed(r.msg) # "none"

\* cash_flows[1] + ... + cash_flows[k]
RECURSIVE RunningSum(_, _)
RunningSum(cash_flows, k) ==
  IF k = 0 THEN Q(0) ELSE QAdd(RunningSum(cash_flows, k - 1), cash_flows[k])

\* sum over i of cash_flows[i] / (1+rate)^i - investment, periods 1..n
RECURSIVE DiscountedSum(_, _, _)
DiscountedSum(rate, cash_flows, k) ==
  IF k = 0 THEN Q(0)
  ELSE QAdd(DiscountedSum(rate, cash_flows, k - 1),
            QDiv(cash_flows[k], QPowNat(QAdd(Q(1), rate), k)))

\* x is within one thousandth of m / 1000
NearMilli(x, m) ==
  LET whole == x[1] \div x[2]
      rest == x[1] % x[2]
  IN  1000 * whole + (1000 * rest) \div x[2] \in {m - 1, m}

(***************************************************************************)
(* C1..C10                                                                 *)
(***************************************************************************)
\* C1: a call of calculate_all_metrics whose arguments violate a
\* precondition (empty cash flows, investment <= 0, rate <= -1) raises a
\* validation error whose message names a violated field, with no entry of
\* results computed and nothing returned; a call whose arguments satisfy all
\* three raises no validation error.
C1_ValidationGuardsTheCall ==
  CalcDone =>
    /\ ~ValidArgs(args) =>
         /\ IsValidationError(ret)
         /\ FieldNamed(ret.msg) \in ViolatedFields(args)
         /\ ret.computed = {}
    /\ ValidArgs(args) => ~IsValidationError(ret)

\* C1 witness: the last of the three checks rejected a rate of -100% or
\* less for a project that is otherwise valid
C1_Witness ==
  /\ CalcDone
  /\ ViolatedFields(args) = {"rate"}
  /\ IsValidationError(ret)
  /\ ret.msg = MsgRate

\* C2 (as claimed): the 'npv' entry is the sum of cash_flows[i] /
\* (1+rate)^(i+1) over i = 0..n-1, minus the investment: every future cash
\* flow is discounted, the first by one full period.
C2_NpvDiscountsFirstFlowOnePeriod ==
  CalcReturned =>
    ret.value.npv =
      Num(QSub(DiscountedSum(args.rate, args.future_cash_flows,
                             Len(args.future_cash_flows)),
               args.initial_investment_positive))

\* C3: 'profitability_index' and 'benefit_cost_ratio' are numbers, equal to
\* each other and to (npv + initial_investment) / initial_investment for the
\* 'npv' entry of the same result.
C3_PiEqualsBcr ==
  CalcReturned =>
    /\ IsNum(ret.value.profitability_index)
    /\ IsNum(ret.value.benefit_cost_ratio)
    /\ ret.value.profitability_index = ret.value.benefit_cost_ratio
    /\ ret.value.profitability_index.v =
         QDiv(QAdd(ret.value.npv.v, args.initial_investment_positive),
              args.initial_investment_positive)

\* C3 witness: a result whose net present value is not zero and whose
\* index is above one
C3_Witness ==
  /\ CalcReturned
  /\ IsNum(ret.value.profitability_index)
  /\ QLt(Q(1), ret.value.profitability_index.v)
  /\ QLt(Q(0), ret.value.npv.v)

\* the payback period of a result, the running sums it is measured against
PaybackIsNumber == CalcReturned /\ IsNum(ret.value.payback_period)

Cum(k) == RunningSum(args.future_cash_flows, k)

\* C4 (as claimed): whenever 'payback_period' is a number p, the running sum
\* over the first floor(p) cash flows is strictly below the investment and
\* the running sum over the first ceil(p) cash flows is at least the
\* investment, also when p is a whole number.
C4_FloorBelowCeilAtLeast ==
  PaybackIsNumber =>
    LET p == ret.value.payback_period.v
    IN  /\ QLt(Cum(QFloor(p)), args.initial_investment_positive)
        /\ QLe(args.initial_investment_positive, Cum(QCeil(p)))

\* C4 (amended): a fractional p is bracketed by the running sums over
\* floor(p) and ceil(p) cash flows; a whole p = k means the investment is
\* first reached in period k (exactly at its end, or rounded up onto it) or
\* in period k + 1 (rounded down onto its start).
C4_PaybackBracketsCrossing ==
  PaybackIsNumber =>
    LET p == ret.value.payback_period.v
        inv == args.initial_investment_positive
        n == Len(args.future_cash_flows)
        k == QFloor(p)
    IN  IF ~QIsInt(p)
          THEN QLt(Cum(k), inv) /\ QLe(inv, Cum(k + 1))
          ELSE \/ k >= 1 /\ QLt(Cum(k - 1), inv) /\ QLe(inv, Cum(k))
               \/ k < n /\ QLt(Cum(k), inv) /\ QLe(inv, Cum(k + 1))

\* C4 witness: a whole payback period that round() produced from a crossing
\* strictly inside the period
C4_Witness ==
  /\ PaybackIsNumber
  /\ QIsInt(ret.value.payback_period.v)
  /\ QFloor(ret.value.payback_period.v) >= 1
  /\ Cum(QFloor(ret.value.payback_period.v)) # args.initial_investment_positive
  /\ QLt(Cum(QFloor(ret.value.payback_period.v) - 1),
         args.initial_investment_positive)

\* C5: 'payback_period' is "Never" exactly when every running sum of the
\* cash flows stays strictly below the investment.
C5_NeverIffNeverRecovered ==
  CalcReturned =>
    (ret.value.payback_period = Str("Never")
       <=> \A k \in 1..Len(args.future_cash_flows) :
             QLt(Cum(k), args.initial_investment_positive))

\* C5 witness: five equal cash flows recovering a quarter of the investment
C5_Witness ==
  /\ CalcReturned
  /\ args.initial_investment_positive = Q(100)
  /\ args.future_cash_flows = <<Q(5), Q(5), Q(5), Q(5), Q(5)>>
  /\ ret.value.payback_period = Str("Never")

\* the profile of a valid project, and the 'npv' entry at a given rate
ProfileDone ==
  /\ pc = "done"
  /\ op = "calculate_npv_profile"
  /\ QLt(Q(0), args.initial_investment_positive)
  /\ args.future_cash_flows # <<>>

ArgsAtRate(rate) ==
  [rate |-> rate,
   initial_investment_positive |-> args.initial_investment_positive,
   future_cash_flows |-> args.future_cash_flows,
   reinvestment_rate |-> None, finance_rate |-> None]

NpvAtRate(rate) == NpvEntry(ArgsAtRate(rate), PvFutureFlows(ArgsAtRate(rate)))

\* the net present values of a profile are those of the rates beside them,
\* and at rate 0 the value is the 'total_cash_flow' entry
ProfileNpvs(rates, npvs) ==
  /\ Len(npvs) = Len(rates)
  /\ \A k \in 1..Len(rates) :
       /\ npvs[k] = NpvAtRate(rates[k])
       /\ rates[k] = Q(0) =>
            /\ npvs[k] = QSub(RunningSum(args.future_cash_flows,
                                         Len(args.future_cash_flows)),
                              args.initial_investment_positive)
            /\ npvs[k] = TotalCashFlow(ArgsAtRate(Q(0)))

EvenlySpaced(rates) ==
  \A k \in 1..(Len(rates) - 1) :
    QSub(rates[k + 1], rates[k]) =
      QDiv(QSub(args.rate_range[2], args.rate_range[1]), Q(Len(rates) - 1))

SensitivityDone ==
  /\ pc = "done"
  /\ op = "perform_sensitivity_analysis"
  /\ QLt(Q(0), args.initial_investment_positive)
  /\ args.future_cash_flows # <<>>
  /\ QLt(Q(-1), args.base_rate)

\* C7: the 'base' value of the discount_rate, cash_flows and
\* initial_investment entries of a sensitivity analysis all equal the 'npv'
\* entry of calculate_all_metrics for the same project at base_rate.
C7_BaseIsTheNpv ==
  SensitivityDone =>
    /\ ret.value.discount_rate.base = Num(NpvAtRate(args.base_rate))
    /\ ret.value.cash_flows.base = Num(NpvAtRate(args.base_rate))
    /\ ret.value.initial_investment.base = Num(NpvAtRate(args.base_rate))

\* C7 witness: an analysis whose three variables all move the net present
\* value away from its base
C7_Witness ==
  /\ SensitivityDone
  /\ ret.value.discount_rate.low # ret.value.discount_rate.base
  /\ ret.value.cash_flows.low # ret.value.cash_flows.base
  /\ ret.value.initial_investment.low # ret.value.initial_investment.base

TenKeys ==
  {"npv", "irr", "mirr", "payback_period", "discounted_payback_period",
   "profitability_index", "eaa", "benefit_cost_ratio", "total_cash_flow",
   "avg_annual_cash_flow"}

Sentinels ==
  {"N/A", "N/A (No Valid Solution)", "N/A (Calculation Error)", "Never",
   "N/A (No Investment)"}

\* C8 (as claimed): a returned result has exactly the ten keys; each value is a number
\* or one of the five sentinel strings; npv, total_cash_flow and
\* avg_annual_cash_flow are numbers; "Never" occurs only under the payback
\* keys and the two root-finder sentinels only under irr and mirr.
C8_ResultShape ==
  CalcReturned =>
    /\ DOMAIN ret.value = TenKeys
    /\ \A k \in DOMAIN ret.value :
         /\ ret.value[k].t \in {"num", "str"}
         /\ ret.value[k].t = "str" => ret.value[k].v \in Sentinels
         /\ ret.value[k] = Str("Never") =>
              k \in {"payback_period", "discounted_payback_period"}
         /\ ret.value[k] \in {Str("N/A (No Valid Solution)"),
                              Str("N/A (Calculation Error)")} =>
              k \in {"irr", "mirr"}
    /\ \A k \in {"npv", "total_cash_flow", "avg_annual_cash_flow"} :
         IsNum(ret.value[k])

\* C9 (as claimed): for valid arguments, however npf.irr and npf.mirr end
\* (a finite value, a non-finite value, an exception), the call returns a
\* complete result; irr and mirr hold a number or their sentinel and the
\* other eight entries are what they are when both library calls succeed.
C9_NoMetricFailurePropagates ==
  (CalcDone /\ ValidArgs(args)) =>
    /\ ret.kind = "returned"
    /\ DOMAIN ret.value = TenKeys
    /\ \A k \in {"irr", "mirr"} :
         \/ IsNum(ret.value[k])
         \/ ret.value[k] \in {Str("N/A (No Valid Solution)"),
                              Str("N/A (Calculation Error)")}
    /\ \E blocks \in ArithmeticOutcomes(args) :
         \A k \in DOMAIN blocks : ret.value[k] = blocks[k]
    /\ ret.value.payback_period \in
         _calculate_payback(args.initial_investment_positive,
                            args.future_cash_flows)
    /\ ret.value.discounted_payback_period \in
         _calculate_discounted_payback(args.rate,
                                       args.initial_investment_positive,
                                       args.future_cash_flows)

\* the example project, amounts in thousands: 100 invested, cash flows of
\* 25, 30, 35, 40 and 45, discounted at 10%
ExampleReturned ==
  /\ CalcReturned
  /\ args.rate = <<1, 10>>
  /\ args.initial_investment_positive = Q(100)
  /\ args.future_cash_flows = <<Q(25), Q(30), Q(35), Q(40), Q(45)>>

FullCoeffs ==
  IntCoeffs(<<QNeg(args.initial_investment_positive)>> \o args.future_cash_flows)

OneSignChangeReturned == CalcReturned /\ SignChanges(FullCoeffs) = 1

OrRate(optional) == IF optional = None THEN args.rate ELSE optional

\* the call's arguments with other MIRR rates
WithMirrRates(reinvestment_rate, finance_rate) ==
  [args EXCEPT !.reinvestment_rate = reinvestment_rate,
               !.finance_rate = finance_rate]

FullVector ==
  <<QNeg(args.initial_investment_positive)>> \o args.future_cash_flows

\* C12: an omitted reinvestment_rate or finance_rate acts as rate: 'mirr' is
\* what npf.mirr gives with rate in its place; and the other nine entries
\* are those of the call with any other MIRR rates ('irr' a root of the
\* full cash-flow vector, to the grid of 1/RootScale).
C12_MirrRatesDefaultToRate ==
  CalcReturned =>
    /\ LET m == npf_mirr(FullVector, OrRate(args.finance_rate),
                         OrRate(args.reinvestment_rate))
       IN  /\ IsNum(ret.value.mirr) => ret.value.mirr = m
           /\ ret.value.mirr = Str("N/A (No Valid Solution)") => m = NonFinite
    /\ \A other \in {WithMirrRates(None, None), WithMirrRates(Q(0), <<1, 2>>),
                     WithMirrRates(args.rate, args.rate)} :
         \E blocks \in ArithmeticOutcomes(other) :
           \A k \in DOMAIN blocks : ret.value[k] = blocks[k]
    /\ IsNum(ret.value.irr) =>
         \E X \in {QFloor(QMul(QAdd(Q(1), ret.value.irr.v), Q(RootScale)))} :
           \E here \in {PolySign(FullCoeffs, X, RootScale)} :
             \/ here = 0
             \/ PolySign(FullCoeffs, X + 1, RootScale) = -here
    /\ ret.value.payback_period \in
         _calculate_payback(args.initial_investment_positive,
                            args.future_cash_flows)
    /\ ret.value.discounted_payback_period \in
         _calculate_discounted_payback(args.rate,
                                       args.initial_investment_positive,
                                       args.future_cash_flows)

\* C12 witness: both MIRR rates omitted at a discount rate other than 0, the
\* modified rate of return a number
C12_Witness ==
  /\ CalcReturned
  /\ args.reinvestment_rate = None
  /\ args.finance_rate = None
  /\ args.rate = <<1, 10>>
  /\ IsNum(ret.value.mirr)
  /\ ret.value.mirr # npf_mirr(FullVector, Q(0), Q(0))

\* the outcome of the call in progress when it runs alone on the list it
\* was given: the three deterministic functions by their value, and
\* calculate_all_metrics by its validation and its arithmetic entries
AloneOutcome ==
  CASE op = "calculate_npv_profile" ->
         ret = Returned(calculate_npv_profile(args.initial_investment_positive,
                          args.future_cash_flows, args.rate_range, args.num_points))
    [] op = "calculate_cumulative_cash_flows" ->
         ret = Returned(calculate_cumulative_cash_flows(
                          args.initial_investment_positive,
                          args.future_cash_flows, args.rate))
    [] op = "perform_sensitivity_analysis" ->
         ret = Returned(perform_sensitivity_analysis(
                          args.initial_investment_positive,
                          args.future_cash_flows, args.base_rate,
                          args.variation_percent))
    [] op = "calculate_all_metrics" ->
         IF Validate(args) # ""
           THEN ret = Raised("ValueError", Validate(args), DOMAIN NoResults)
           ELSE ret.kind = "returned" =>
                  \E blocks \in ArithmeticOutcomes(args) :
                    /\ \A key \in DOMAIN blocks : ret.value[key] = blocks[key]
                    /\ ret.value.payback_period \in
                         _calculate_payback(args.initial_investment_positive,
                                            args.future_cash_flows)

FirstCrossing(k) ==
  /\ QLe(args.initial_investment_positive, Cum(k))
  /\ \A j \in 1..(k - 1) : QLt(Cum(j), args.initial_investment_positive)

\* C14: when the running sums reach the investment, first at period k, the
\* cash flow of period k is strictly positive (the skip of line 125 is not
\* taken there) and 'payback_period' is
\* (k-1) + (investment - C_(k-1)) / cash_flows[k-1] rounded to 2 decimals, a
\* number in [k-1, k]; and 'payback_period' is a number only when the
\* running sums reach the investment
C14_PaybackAtFirstCrossing ==
  CalcReturned =>
    /\ \A k \in 1..Len(args.future_cash_flows) :
         FirstCrossing(k) =>
           /\ QLt(Q(0), args.future_cash_flows[k])
           /\ IsNum(ret.value.payback_period)
           /\ ret.value.payback_period.v \in
                Round2(QAdd(Q(k - 1),
                            QDiv(QSub(args.initial_investment_positive, Cum(k - 1)),
                                 args.future_cash_flows[k])))
           /\ QLe(Q(k - 1), ret.value.payback_period.v)
           /\ QLe(ret.value.payback_period.v, Q(k))
    /\ IsNum(ret.value.payback_period) =>
         \E k \in 1..Len(args.future_cash_flows) : FirstCrossing(k)

\* the investment is recovered inside the second period, after a first
\* period that recovered part of it
C14_Witness ==
  /\ PaybackIsNumber
  /\ Len(args.future_cash_flows) >= 2
  /\ FirstCrossing(2)
  /\ QLt(Q(0), args.future_cash_flows[1])
  /\ QLt(Q(1), ret.value.payback_period.v)
  /\ QLt(ret.value.payback_period.v, Q(2))

\* the list d[i] = cash_flows[i] / (1 + rate)^(i+1) of a call's arguments
\* (0-based i; the 1 + rate is the float sum of line 139)
DiscountedList ==
  [i \in 1..Len(args.future_cash_flows) |->
     QDiv(args.future_cash_flows[i], QPow(OnePlus(args.rate), i))]

\* C15: for valid arguments _calculate_discounted_payback(rate, investment,
\* cash_flows) returns what _calculate_payback(investment, d) returns for the
\* discounted list d, 'discounted_payback_period' being one of these values;
\* and at rate 0 'discounted_payback_period' equals 'payback_period'
C15_DiscountedPaybackIsPaybackOfDiscounted ==
  CalcReturned =>
    /\ _calculate_discounted_payback(args.rate, args.initial_investment_positive,
                                     args.future_cash_flows)
         = _calculate_payback(args.initial_investment_positive, DiscountedList)
    /\ ret.value.discounted_payback_period \in
         _calculate_payback(args.initial_investment_positive, DiscountedList)
    /\ args.rate = Q(0) =>
         ret.value.discounted_payback_period = ret.value.payback_period

\* at a rate above zero the discounted payback is a number later than the
\* payback
C15_Witness ==
  /\ CalcReturned
  /\ QLt(Q(0), args.rate)
  /\ IsNum(ret.value.discounted_payback_period)
  /\ IsNum(ret.value.payback_period)
  /\ QLt(ret.value.payback_period.v, ret.value.discounted_payback_period.v)

\* the annuity factor of lines 91: n when rate = 0, else
\* (1 - (1 + rate)^(-n)) / rate, the 1 + rate being the float sum
AnnuityFactor ==
  LET n == Len(args.future_cash_flows)
  IN  IF args.rate = Q(0) THEN Q(n)
      ELSE QDiv(QSub(Q(1), QPow(OnePlus(args.rate), -n)), args.rate)

\* C16 (as claimed): for valid arguments 'eaa' is "N/A" exactly when 'npv'
\* is exactly 0; the annuity factor is never zero; and when 'npv' is not 0,
\* 'eaa' is npv divided by the annuity factor.
C16_EaaIsNpvOverFactor ==
  CalcReturned =>
    /\ (ret.value.eaa = Str("N/A")) <=> (ret.value.npv.v = Q(0))
    /\ AnnuityFactor # Q(0)
    /\ ret.value.npv.v # Q(0) =>
         ret.value.eaa = Num(QDiv(ret.value.npv.v, AnnuityFactor))

\* a call of calculate_cumulative_cash_flows has ended
CumulativeDone == pc = "done" /\ op = "calculate_cumulative_cash_flows"

\* C17: calculate_cumulative_cash_flows on n cash flows returns three
\* sequences of length n+1: the periods 0..n; two series that both start at
\* -initial_investment, the undiscounted one growing by cash_flows[k-1] at
\* period k and the discounted one by cash_flows[k-1] / (1+rate)^k; the last
\* undiscounted value is sum(cash_flows) - initial_investment
C17_CumulativeSeries ==
  CumulativeDone =>
    LET n == Len(args.future_cash_flows)
        years == ret.value[1]
        undiscounted == ret.value[2]
        discounted == ret.value[3]
        seed == QNeg(args.initial_investment_positive)
    IN  /\ ret.kind = "returned"
        /\ Len(ret.value) = 3
        /\ Len(years) = n + 1 /\ Len(undiscounted) = n + 1
        /\ Len(discounted) = n + 1
        /\ \A k \in 0..n : years[k + 1] = k
        /\ undiscounted[1] = seed /\ discounted[1] = seed
        /\ \A k \in 1..n :
             /\ undiscounted[k + 1] =
                  QAdd(undiscounted[k], args.future_cash_flows[k])
             /\ discounted[k + 1] =
                  QAdd(discounted[k],
                       QDiv(args.future_cash_flows[k],
                            QPow(OnePlus(args.rate), k)))
        /\ undiscounted[n + 1] =
             QSub(QSum(args.future_cash_flows), args.initial_investment_positive)

\* the series of a project of the longest length at a rate above zero, the
\* discounted series ending above zero and below the undiscounted one
C17_Witness ==
  /\ CumulativeDone
  /\ Len(args.future_cash_flows) = MaxLen
  /\ QLt(Q(0), args.rate)
  /\ QLt(Q(0), ret.value[3][MaxLen + 1])
  /\ QLt(ret.value[3][MaxLen + 1], ret.value[2][MaxLen + 1])

\* the 'npv' entry of calculate_all_metrics for a rate, an investment and a
\* list of cash flows
NpvOf(rate, initial_investment_positive, future_cash_flows) ==
  LET a == [rate |-> rate,
            initial_investment_positive |-> initial_investment_positive,
            future_cash_flows |-> future_cash_flows,
            reinvestment_rate |-> None, finance_rate |-> None]
  IN  NpvEntry(a, PvFutureFlows(a))

\* C18: with v = variation_percent / 100, the 'low' and 'high' of each entry
\* of a sensitivity analysis are the net present value with that one
\* variable multiplied by (1 - v) and (1 + v) and the other two at their
\* base values; for 'cash_flows' and 'initial_investment'
\* low + high = 2 * base; for 'initial_investment'
\* low = base + v * initial_investment >= base and
\* high = base - v * initial_investment <= base; and with
\* variation_percent = 0 all nine values are equal
C18_SingleVariableSweeps ==
  SensitivityDone =>
    LET v == QDiv(args.variation_percent, Q(100))
        down == QSub(Q(1), v)
        up == QAdd(Q(1), v)
        inv == args.initial_investment_positive
        cfs == args.future_cash_flows
        r == args.base_rate
        times(factor) == [i \in 1..Len(cfs) |-> QMul(cfs[i], factor)]
        res == ret.value
    IN  /\ res.discount_rate.low = Num(NpvOf(QMul(r, down), inv, cfs))
        /\ res.discount_rate.high = Num(NpvOf(QMul(r, up), inv, cfs))
        /\ res.cash_flows.low = Num(NpvOf(r, inv, times(down)))
        /\ res.cash_flows.high = Num(NpvOf(r, inv, times(up)))
        /\ res.initial_investment.low = Num(NpvOf(r, QMul(inv, down), cfs))
        /\ res.initial_investment.high = Num(NpvOf(r, QMul(inv, up), cfs))
        /\ \A e \in {res.cash_flows, res.initial_investment} :
             QAdd(e.low.v, e.high.v) = QMul(Q(2), e.base.v)
        /\ res.initial_investment.low.v =
             QAdd(res.initial_investment.base.v, QMul(v, inv))
        /\ res.initial_investment.high.v =
             QSub(res.initial_investment.base.v, QMul(v, inv))
        /\ QSign(QSub(res.initial_investment.low.v,
                      res.initial_investment.base.v)) >= 0
        /\ QSign(QSub(res.initial_investment.base.v,
                      res.initial_investment.high.v)) >= 0
        /\ args.variation_percent = Q(0) =>
             \A e \in {res.discount_rate, res.cash_flows, res.initial_investment} :
               /\ e.low = res.discount_rate.base
               /\ e.base = res.discount_rate.base
               /\ e.high = res.discount_rate.base

\* an analysis at 50% on cash flows of the longest length, in which scaling
\* the cash flows and scaling the investment move the net present value in
\* opposite directions
C18_Witness ==
  /\ SensitivityDone
  /\ args.variation_percent = Q(50)
  /\ Len(args.future_cash_flows) = MaxLen
  /\ QSign(QSub(ret.value.cash_flows.base.v, ret.value.cash_flows.low.v)) > 0
  /\ QSign(QSub(ret.value.cash_flows.high.v, ret.value.cash_flows.base.v)) > 0
  /\ QSign(QSub(ret.value.initial_investment.base.v,
                ret.value.initial_investment.high.v)) > 0
  /\ ret.value.discount_rate.low # ret.value.discount_rate.high

\* C19 (as claimed): for every base_rate > -1 and every variation_percent in
\* 0..50, each of the three rates base_rate * (1 - v), base_rate,
\* base_rate * (1 + v) at which perform_sensitivity_analysis evaluates the
\* net present value is > -1.
C19_SweepRatesAboveMinusOne ==
  (SensitivityDone /\ QLe(Q(0), args.variation_percent)
                   /\ QLe(args.variation_percent, Q(50))) =>
    \A k \in 1..3 :
      QLt(Q(-1), SensitivityRates(args.base_rate,
                                  QDiv(args.variation_percent, Q(100)))[k])

\* C20 (as claimed): for a valid project and rate, the last element of the
\* cumulative discounted series equals the 'npv' entry of
\* calculate_all_metrics for the same arguments; and
\* 'discounted_payback_period' is a number whenever 'npv' > 0 and all cash
\* flows are non-negative.
C20_DiscountedFiguresAgree ==
  /\ (CumulativeDone /\ QLt(Q(0), args.initial_investment_positive)
                     /\ args.future_cash_flows # <<>>) =>
       ret.value[3][Len(args.future_cash_flows) + 1] = NpvAtRate(args.rate)
  /\ (CalcReturned /\ QLt(Q(0), ret.value.npv.v)
                   /\ \A i \in 1..Len(args.future_cash_flows) :
                        QLe(Q(0), args.future_cash_flows[i])) =>
       IsNum(ret.value.discounted_payback_period)

\* a result for a rate >= 0 and cash flows that are all >= 0
NonNegativeReturned ==
  /\ CalcReturned
  /\ QLe(Q(0), args.rate)
  /\ \A i \in 1..Len(args.future_cash_flows) :
       QLe(Q(0), args.future_cash_flows[i])

\* C21: for valid arguments with rate >= 0 and all cash flows >= 0,
\* discounting never shortens the payback: when 'payback_period' is "Never"
\* so is 'discounted_payback_period', and when both are numbers
\* 'discounted_payback_period' >= 'payback_period'
C21_DiscountingNeverShortensPayback ==
  NonNegativeReturned =>
    /\ ret.value.payback_period = Str("Never") =>
         ret.value.discounted_payback_period = Str("Never")
    /\ (IsNum(ret.value.payback_period)
          /\ IsNum(ret.value.discounted_payback_period)) =>
         QLe(ret.value.payback_period.v, ret.value.discounted_payback_period.v)

\* non-negative cash flows of the longest length at a rate above zero, the
\* discounted payback a number strictly later than the payback
C21_Witness ==
  /\ NonNegativeReturned
  /\ QLt(Q(0), args.rate)
  /\ Len(args.future_cash_flows) = MaxLen
  /\ IsNum(ret.value.payback_period)
  /\ IsNum(ret.value.discounted_payback_period)
  /\ QLt(ret.value.payback_period.v, ret.value.discounted_payback_period.v)

\* the three keys of a session
SessionKeys(session) == <<session.calculated, session.results, session.inputs>>

\* the stored results are an outcome of calculate_all_metrics called with
\* the stored inputs' rate, initial_investment and future_cash_flows (the
\* MIRR rates of the call are not among the stored inputs)
StoredResultsAreOfStoredInputs ==
  LET inputs == session_state.inputs[1]
  IN  /\ inputs.rate = PercentToRate(inputs.discount_rate)
      /\ \E custom \in CustomRates :
           LET a == [rate |-> inputs.rate,
                     initial_investment_positive |-> inputs.initial_investment,
                     future_cash_flows |-> inputs.future_cash_flows,
                     reinvestment_rate |-> custom[1],
                     finance_rate |-> custom[2]]
           IN  /\ a \in DashCalls
               /\ Returned(session_state.results[1]) \in ClickOutcomes[a]

\* the tabs show the stored results, and the charts and the sensitivity
\* analysis call the engine with the stored inputs
ChartsUseStoredInputs ==
  LET inputs == session_state.inputs[1]
      shown == {display.calculate_cumulative_cash_flows,
                display.calculate_npv_profile,
                display.perform_sensitivity_analysis}
  IN  /\ display.screen = "tabs"
      /\ display.results = session_state.results[1]
      /\ \A call \in shown :
           /\ call.initial_investment_positive = inputs.initial_investment
           /\ call.future_cash_flows = inputs.future_cash_flows
      /\ display.calculate_cumulative_cash_flows.rate = inputs.rate
      /\ display.perform_sensitivity_analysis.base_rate = inputs.rate

\* one run of the script: the three keys change only in a run whose click
\* ended with calculate_all_metrics returning, and then all three are set;
\* a click that did not end so leaves them as they were; calculated never
\* returns to False
RunKeepsOrStores ==
  /\ session_state.calculated => session_state'.calculated
  /\ SessionKeys(session_state') # SessionKeys(session_state) =>
       /\ last_run'.calculate_button
       /\ last_run'.calculation = "returned"
       /\ session_state'.calculated
       /\ session_state'.results # None
       /\ session_state'.inputs # None
  /\ (last_run'.calculate_button /\ last_run'.calculation # "returned") =>
       SessionKeys(session_state') = SessionKeys(session_state)

\* C22: over any sequence of runs of the dashboard script and Calculate
\* clicks, the session starts with calculated = False, results = None,
\* inputs = None; calculated, results and inputs are written only together
\* and only after calculate_all_metrics has returned; a click whose
\* calculation raises or whose cash-flow list is empty leaves all three
\* unchanged; calculated never returns to False; and whenever calculated is
\* True the stored results are those computed from the stored inputs' rate,
\* initial_investment and future_cash_flows, which the charts and the
\* sensitivity analysis use
C22_SessionHoldsTheLastCalculation ==
  /\ SessionKeys(session_state) = <<FALSE, None, None>>
  /\ [][RunKeepsOrStores]_vars
  /\ [](session_state.calculated =>
          /\ session_state.results # None
          /\ session_state.inputs # None
          /\ StoredResultsAreOfStoredInputs
          /\ ChartsUseStoredInputs)

\* results are stored and displayed, and the last click's calculation
\* raised
C22_Witness ==
  /\ session_state.calculated
  /\ last_run.calculate_button
  /\ last_run.calculation = "raised"
  /\ display.screen = "tabs"
  /\ display.results = session_state.results[1]

====
